---- MODULE Spec2Model ----
(***************************************************************************)
(* A model of the trie package: the arena trie (simple), the suffix        *)
(* compressor, the packed encoder and the navigator.                       *)
(*                                                                         *)
(* Pointers to simple nodes are indices into the sequence heap; nil is 0.  *)
(* A string is a sequence of bytes (0..255).  A uint32 hash is a pair      *)
(* <<hi, lo>> of 16-bit limbs, so that its arithmetic is exact mod 2^32.   *)
(***************************************************************************)
EXTENDS Integers, Sequences, FiniteSets, TLC

VARIABLES
    cm,       \* the CharMap handed to the builder
    kind,     \* which builder: "simple", "sc" (suffix-compressed), "packed"
    heap,     \* the simple nodes; heap[1] is the builder's b.s
    pc,       \* "build", "compress", "pack", "ready", "nav" or "panic"
    added,    \* the strings for which AddWord returned nil
    last,     \* the last AddWord call: its argument and its outcome
    ct,       \* the compressTable: hashes, done and the three counters
    root,     \* what Root() returned: the compressed root s, the packed idx
    cells,    \* packedTable.cells
    indexes,  \* fromSimple's indexes map (0: absent)
    stack,    \* the active calls of compressNode, then of insertNode
    call,     \* <<s>>: insertNode is about to be called on s; else <<>>
    ret,      \* <<v>>: the last call returned v; <<>>: nothing to take up
    nodes,    \* Navigator.nodes
    prefix,   \* Navigator.prefix
    undo,     \* what the navigator showed before the last Push
    enum      \* the enumeration in progress: channel, producer, consumer

vars == <<cm, kind, heap, pc, added, last, ct, root, cells, indexes,
          stack, call, ret, nodes, prefix, undo, enum>>

nil == 0

-----------------------------------------------------------------------------
(* Bounds of the model *)

\* The number of AddWord calls made on a builder.
MaxWords == 2
\* The length of the probe strings followed from the root.
ProbeLen == 2
\* The number of bytes pushed on a navigator.
MaxDepth == 2

-----------------------------------------------------------------------------
(* The alphabet map *)

\* NewAlphaCharMap: A-Z and a-z folded to 1..26, '-' is 27, apostrophe is 28.
NewAlphaCharMap ==
    [b \in 0..255 |->
        IF b >= 65 /\ b <= 90 THEN b - 65 + 1
        ELSE IF b >= 97 /\ b <= 122 THEN b - 97 + 1
        ELSE IF b = 45 THEN 27
        ELSE IF b = 39 THEN 28
        ELSE 0]

\* A caller-built CharMap: A/a is 1, B/b is 2 and the Latin-1 byte 0xE9 is 3.
LatinCharMap ==
    [b \in 0..255 |->
        IF b = 65 \/ b = 97 THEN 1
        ELSE IF b = 66 \/ b = 98 THEN 2
        ELSE IF b = 233 THEN 3
        ELSE 0]

CharMaps == {NewAlphaCharMap, LatinCharMap}

\* CharMap.max: the largest id in the map (0 for a map that accepts nothing).
max(m) == CHOOSE r \in {m[i] : i \in 0..255} \cup {0} :
              \A i \in 0..255 : m[i] <= r

-----------------------------------------------------------------------------
(* Strings: `for _, c := range s` yields the runes of s, not its bytes *)

RuneError == 65533

isCont(b) == b >= 128 /\ b <= 191

\* The accepted range of the second byte after the leading byte b0.
secondLo(b0) == IF b0 = 224 THEN 160 ELSE IF b0 = 240 THEN 144 ELSE 128
secondHi(b0) == IF b0 = 237 THEN 159 ELSE IF b0 = 244 THEN 143 ELSE 191

\* The rune that starts at s[i] and its width in bytes; an invalid or
\* truncated encoding yields RuneError and the width 1.
decodeRune(s, i) ==
    LET b0 == s[i]
        n  == Len(s) - i + 1
        bad == <<RuneError, 1>>
    IN  IF b0 < 128 THEN <<b0, 1>>
        ELSE IF b0 >= 194 /\ b0 <= 223 THEN
            IF n >= 2 /\ isCont(s[i+1])
            THEN <<(b0 - 192) * 64 + (s[i+1] - 128), 2>>
            ELSE bad
        ELSE IF b0 >= 224 /\ b0 <= 239 THEN
            IF n >= 3 /\ s[i+1] >= secondLo(b0) /\ s[i+1] <= secondHi(b0)
                      /\ isCont(s[i+2])
            THEN <<(b0 - 224) * 4096 + (s[i+1] - 128) * 64 + (s[i+2] - 128), 3>>
            ELSE bad
        ELSE IF b0 >= 240 /\ b0 <= 244 THEN
            IF n >= 4 /\ s[i+1] >= secondLo(b0) /\ s[i+1] <= secondHi(b0)
                      /\ isCont(s[i+2]) /\ isCont(s[i+3])
            THEN <<(b0 - 240) * 262144 + (s[i+1] - 128) * 4096
                    + (s[i+2] - 128) * 64 + (s[i+3] - 128), 4>>
            ELSE bad
        ELSE bad

RECURSIVE runesFrom(_, _)
runesFrom(s, i) ==
    IF i > Len(s) THEN <<>>
    ELSE LET d == decodeRune(s, i) IN <<d[1]>> \o runesFrom(s, i + d[2])

\* The values c takes in `for _, c := range s`.
runes(s) == runesFrom(s, 1)

-----------------------------------------------------------------------------
(* The arena trie *)

\* newSimple(n): not a word, n nil children (indexed 0..n-1 as in the code).
newSimple(n) == [isWord |-> FALSE, children |-> [i \in 0..(n-1) |-> nil]]

\* The first loop of AddWord: indexing the 256-entry CharMap with a rune of
\* 256 or more panics; a rune the map sends to 0 returns the error.
RECURSIVE checkLetters(_, _, _)
checkLetters(m, rs, k) ==
    IF k > Len(rs) THEN "nil"
    ELSE IF rs[k] >= 256 THEN "panic"
    ELSE IF m[rs[k]] = 0 THEN "error"
    ELSE checkLetters(m, rs, k + 1)

\* The second loop of AddWord, from node st on the k-th rune.
RECURSIVE insertLetters(_, _, _, _, _)
insertLetters(h, m, rs, k, st) ==
    IF k > Len(rs) THEN [h EXCEPT ![st].isWord = TRUE]
    ELSE LET i == m[rs[k]] - 1 IN
         IF h[st].children[i] = nil
         THEN LET h2 == Append(h, newSimple(max(m)))
                  h3 == [h2 EXCEPT ![st].children[i] = Len(h2)]
              IN  insertLetters(h3, m, rs, k + 1, Len(h2))
         ELSE insertLetters(h, m, rs, k + 1, h[st].children[i])

\* simpleNode.AddWord (scBuilder.AddWord and packedBuilder.AddWord call it):
\* the outcome ("nil", "error" or "panic") and the heap afterwards.
simpleNodeAddWord(h, m, s) ==
    LET rs == runes(s)
        e  == checkLetters(m, rs, 1)
    IN  IF e # "nil" THEN [err |-> e, heap |-> h]
        ELSE [err |-> "nil", heap |-> insertLetters(h, m, rs, 1, 1)]

\* simpleNode.IsPrefix, IsWord and Follow; s is a pointer to a simple node.
simpleIsPrefix(s) == s # nil
simpleIsWord(h, s) == s # nil /\ h[s].isWord
simpleFollow(h, m, s, c) ==
    IF s = nil \/ m[c] = 0 THEN nil
    ELSE IF h[s].children[m[c] - 1] = nil THEN nil
    ELSE h[s].children[m[c] - 1]

-----------------------------------------------------------------------------
(* uint32 arithmetic on <<hi, lo>> pairs of 16-bit limbs *)

u32(k) == <<(k \div 65536) % 65536, k % 65536>>

\* x * k mod 2^32, for a small multiplier k.
u32Mul(x, k) ==
    LET lo == x[2] * k
        hi == x[1] * k + (lo \div 65536)
    IN  <<hi % 65536, lo % 65536>>

\* x + y mod 2^32.
u32Add(x, y) ==
    LET lo == x[2] + y[2]
        hi == x[1] + y[1] + (lo \div 65536)
    IN  <<hi % 65536, lo % 65536>>

-----------------------------------------------------------------------------
(* The suffix compressor.  The compressTable is the record ct: hashes (0   *)
(* for a node not hashed yet), done (hash -> bucket) and the counters.     *)
(* The loop variables of a Go loop are carried as one record v.            *)

\* len(s.children)
width(node) == Cardinality(DOMAIN node.children)

\* compress's &compressTable{...}
newCompressTable(h) ==
    [hashes |-> [p \in 1..Len(h) |-> u32(0)],
     done |-> [x \in {} |-> <<>>],
     duplicates |-> 0, nodes |-> 0, collisions |-> 0]

\* compressTable.hash: the table with the hashes it memoized, and the hash.
\* hashLoop is its loop over t.children, v = [ct, t, i, result].
RECURSIVE hash(_, _, _), hashLoop(_, _)
hash(c, h, t) ==
    IF c.hashes[t] # u32(0) THEN [ct |-> c, val |-> c.hashes[t]]
    ELSE LET r == hashLoop(h, [ct |-> c, t |-> t, i |-> 0, result |-> u32(0)])
             a == IF h[t].isWord
                  THEN u32Add(u32Mul(r.result, 7), u32(1))
                  ELSE r.result
             b == IF a = u32(0) THEN u32(42) ELSE a
         IN  [ct |-> [r.ct EXCEPT !.hashes[t] = b], val |-> b]

hashLoop(h, v) ==
    IF v.i = width(h[v.t]) THEN v
    ELSE LET r1 == u32Mul(v.result, 167)
             kid == h[v.t].children[v.i]
         IN  IF kid # nil
             THEN LET hc == hash(v.ct, h, kid)
                  IN  hashLoop(h, [ct |-> hc.ct, t |-> v.t, i |-> v.i + 1,
                                   result |-> u32Add(r1, u32Mul(hc.val, v.i + 1))])
             ELSE hashLoop(h, [ct |-> v.ct, t |-> v.t, i |-> v.i + 1,
                               result |-> u32Add(r1, u32((v.i + 1) * 99))])

\* An equality that trusts the hash: any two nodes of one bucket are equal.
nodesEqualByHash(h, s, t) == TRUE

\* An equality of pointers only: no two different nodes are equal.
nodesEqualByPointer(h, s, t) == s = t

\* nodesEqual: the expensive structural equality.
RECURSIVE nodesEqual(_, _, _)
nodesEqual(h, s, t) ==
    IF s = t THEN TRUE
    ELSE IF h[s].isWord # h[t].isWord THEN FALSE
    ELSE IF \E i \in DOMAIN h[s].children :
                (h[s].children[i] = nil) # (h[t].children[i] = nil) THEN FALSE
    ELSE \A i \in DOMAIN h[s].children :
            h[s].children[i] # nil
                => nodesEqual(h, h[s].children[i], h[t].children[i])

\* compressTable.insertNode: the table afterwards and the canonical node.
compressInsertNode(c0, h, t) ==
    LET hh     == hash(c0, h, t)
        c      == hh.ct
        hv     == hh.val
        fresh  == hv \notin DOMAIN c.done
        bucket == IF fresh THEN <<>> ELSE c.done[hv]
        hits   == {k \in 1..Len(bucket) : nodesEqual(h, bucket[k], t)}
        first  == CHOOSE k \in hits : \A k2 \in hits : k <= k2
    IN  IF hits # {}
        THEN [ct |-> [c EXCEPT !.duplicates = @ + 1], ret |-> bucket[first]]
        ELSE [ct |-> [c EXCEPT !.done = (hv :> Append(bucket, t)) @@ c.done,
                               !.nodes = @ + 1,
                               !.collisions = IF fresh THEN @ ELSE @ + 1],
              ret |-> t]

\* The first index from i on at which node has a child, or -1: the loops of
\* compressNode and of packedTable.insertNode do nothing on a nil child.
liveFrom(node, i) ==
    LET S == {j \in DOMAIN node.children : j >= i /\ node.children[j] # nil}
    IN  IF S = {} THEN -1 ELSE CHOOSE j \in S : \A j2 \in S : j <= j2

-----------------------------------------------------------------------------
(* The packed encoder.  cells[k+1] is the code's cells[k]: a cell is       *)
(* key + 256 * value.                                                      *)

\* packedTable.Key, Value, SetKey and SetValue.
Key(t, idx) == t[idx + 1] % 256
Value(t, idx) == t[idx + 1] \div 256
SetKey(t, idx, k) == [t EXCEPT ![idx + 1] = (@ \div 256) * 256 + k]
SetValue(t, idx, v) == [t EXCEPT ![idx + 1] = (@ % 256) + (v % 16777216) * 256]

\* packedTable.ensureIndex: N empty cells are appended until i+N cells exist.
RECURSIVE ensureIndex(_, _, _)
ensureIndex(t, i, N) ==
    IF Len(t) < i + N THEN ensureIndex(t \o [k \in 1..N |-> 0], i, N)
    ELSE [idx |-> i, cells |-> t]

\* packedTable.nextGap: the first index after i that is past the end or
\* whose cell is 0.
nextGap(t, i) ==
    LET S == {k \in (i + 1)..Len(t) : k >= Len(t) \/ t[k + 1] = 0}
    IN  IF S = {} THEN i + 1 ELSE CHOOSE k \in S : \A k2 \in S : k <= k2

\* The offset findIndex starts from: 0 for a word, else the first child's
\* slot, else N+1.
findOffset(node) ==
    IF node.isWord THEN 0
    ELSE IF liveFrom(node, 0) = -1 THEN width(node) + 1
    ELSE liveFrom(node, 0) + 1

\* The inner loop of findIndex without its test of the key j+1: it leaves
\* only at the end of the table or on a keyed cell the node needs.
leavesAtNeeded(t, node, i, j) ==
    \/ i + j >= Len(t)
    \/ /\ t[i + j + 1] % 256 # 0
       /\ \/ j = 0 /\ node.isWord
          \/ j > 0 /\ node.children[j - 1] # nil

\* The inner loop of findIndex without its tests of the slots the node
\* needs: it leaves only at the end of the table or on a cell keyed j+1.
leavesAtOwnKey(t, node, i, j) ==
    \/ i + j >= Len(t)
    \/ t[i + j + 1] % 256 = (j + 1) % 256

\* Whether the inner loop of findIndex leaves at slot j of candidate base i:
\* at the end of the table, on a cell keyed j+1, or on a keyed cell the node
\* needs.
leavesAt(t, node, i, j) ==
    \/ i + j >= Len(t)
    \/ Key(t, i + j) = (j + 1) % 256
    \/ /\ Key(t, i + j) # 0
       /\ \/ j = 0 /\ node.isWord
          \/ j > 0 /\ node.children[j - 1] # nil

\* The inner loop of findIndex at candidate base i: "grow" (it returns at
\* the end of the table), "bad" (ok = false) or "ok", by the first slot at
\* which it leaves.
checkBase(t, node, i) ==
    LET S == {j \in 0..width(node) : leavesAt(t, node, i, j)}
        j == CHOOSE j \in S : \A j2 \in S : j <= j2
    IN  IF S = {} THEN "ok"
        ELSE IF i + j >= Len(t) THEN "grow"
        ELSE "bad"

\* packedTable.findIndex: the base chosen and the (possibly grown) cells.
\* The loop visits i = g - offset for g = nextGap(-1), nextGap(g), ... while
\* i < len(cells): the gaps of the table in ascending order, then the
\* indices len(cells), len(cells)+1, ... past its end; it skips i < 0 and
\* returns the first base that checkBase does not refuse.
findIndex(t, node) ==
    LET offset == findOffset(node)
        N == width(node)
        G == {g \in 0..(Len(t) + offset - 1) :
                /\ g >= Len(t) \/ t[g + 1] = 0
                /\ g - offset >= 0
                /\ checkBase(t, node, g - offset) # "bad"}
        g0 == CHOOSE g \in G : \A g2 \in G : g <= g2
    IN  IF G = {} THEN ensureIndex(t, Len(t), N + 1)
        ELSE ensureIndex(t, g0 - offset, N + 1)

\* The keys insertNode writes for a node placed at idx: 1 at idx for a word,
\* i+2 at idx+i+1 for each child i.
setKeys(t, node, idx) ==
    [k \in 1..Len(t) |->
        LET j == k - 1 - idx IN
        IF j = 0 /\ node.isWord THEN (t[k] \div 256) * 256 + 1
        ELSE IF j >= 1 /\ j <= width(node) /\ node.children[j - 1] # nil
        THEN (t[k] \div 256) * 256 + ((j + 1) % 256)
        ELSE t[k]]

\* packedTable.indexAt
indexAt(t, idx, c) ==
    LET k == idx + c IN
    IF k >= Len(t) THEN -1
    ELSE IF Key(t, k) # (c + 1) % 256 THEN -1
    ELSE Value(t, k)

\* packedNode.IsPrefix, IsWord and Follow; idx is -1 for badNode.
packedIsPrefix(idx) == idx # -1
packedIsWord(t, idx) == idx # -1 /\ indexAt(t, idx, 0) # -1
packedFollow(t, m, idx, c) ==
    IF idx = -1 \/ m[c] = 0 THEN -1
    ELSE indexAt(t, idx, m[c])

-----------------------------------------------------------------------------
(* Inputs *)

\* The strings handed to AddWord: "A", "AB", "BB", "a", "B-", "A1", "ABA",
\* "\xC3\xA9" (e-acute in UTF-8), "\xC5\x93" (oe ligature, U+0153), "\xFF",
\* and nine P's.
Words ==
    { <<65>>, <<65, 66>>, <<66, 66>>, <<97>>, <<66, 45>>, <<65, 49>>,
      <<65, 66, 65>>,
      <<195, 169>>, <<197, 147>>, <<255>>,
      <<80, 80, 80, 80, 80, 80, 80, 80, 80>> }

Kinds == {"simple", "sc", "packed"}

noTable == [hashes |-> <<>>, done |-> <<>>,
            duplicates |-> 0, nodes |-> 0, collisions |-> 0]
noUndo == [state |-> "none", word |-> <<>>, isWord |-> "", isPrefix |-> "",
           node |-> nil, c |-> 0]
noEnum == [state |-> "idle", mode |-> "", saved |-> <<>>, ppc |-> "",
           frames |-> <<>>, got |-> <<>>, count |-> 0, consumer |-> ""]
noRoot == [s |-> nil, idx |-> -1]

-----------------------------------------------------------------------------
(* The builders *)

\* NewSimpleBuilder, NewSuffixCompressedBuilder or NewPackedBuilder on a
\* CharMap: one empty node.
Init ==
    /\ cm \in CharMaps
    /\ kind \in Kinds
    /\ heap = <<newSimple(max(cm))>>
    /\ pc = "build"
    /\ added = {}
    /\ last = [word |-> <<>>, err |-> "none", calls |-> 0]
    /\ ct = noTable
    /\ root = noRoot
    /\ cells = <<>>
    /\ indexes = <<>>
    /\ stack = <<>>
    /\ call = <<>>
    /\ ret = <<>>
    /\ nodes = <<>>
    /\ prefix = <<>>
    /\ undo = noUndo
    /\ enum = noEnum

\* Builder.AddWord(s)
AddWord(s) ==
    /\ pc = "build"
    /\ last.calls < MaxWords
    /\ LET r == simpleNodeAddWord(heap, cm, s) IN
        /\ heap' = r.heap
        /\ last' = [word |-> s, err |-> r.err, calls |-> last.calls + 1]
        /\ added' = IF r.err = "nil" THEN added \cup {s} ELSE added
        /\ pc' = IF r.err = "panic" THEN "panic" ELSE "build"
    /\ UNCHANGED <<cm, kind, ct, root, cells, indexes, stack, call, ret,
                   nodes, prefix, undo, enum>>

\* Builder.Root(): the simple builder returns itself; the suffix-compressed
\* and the packed builder call compress, which calls compressNode(t.s).
Root ==
    /\ pc = "build"
    /\ \/ /\ kind = "simple"
          /\ root' = [s |-> 1, idx |-> -1]
          /\ pc' = "ready"
          /\ UNCHANGED <<ct, stack>>
       \/ /\ kind # "simple"
          /\ ct' = newCompressTable(heap)
          /\ stack' = <<[t |-> 1, i |-> 0]>>
          /\ pc' = "compress"
          /\ UNCHANGED root
    /\ UNCHANGED <<cm, kind, heap, added, last, cells, indexes, call, ret,
                   nodes, prefix, undo, enum>>

\* compressNode's loop in the top frame [t, i]: call compressNode on the
\* next child that is not nil, or, after the last, return insertNode(t).
CompressLoop ==
    /\ pc = "compress"
    /\ ret = <<>>
    /\ stack # <<>>
    /\ LET f == stack[Len(stack)]
           j == liveFrom(heap[f.t], f.i)
       IN  IF j = -1
           THEN LET r == compressInsertNode(ct, heap, f.t) IN
                /\ ct' = r.ct
                /\ ret' = <<r.ret>>
                /\ stack' = SubSeq(stack, 1, Len(stack) - 1)
           ELSE /\ stack' = [stack EXCEPT ![Len(stack)].i = j]
                               \o <<[t |-> heap[f.t].children[j], i |-> 0]>>
                /\ UNCHANGED <<ct, ret>>
    /\ UNCHANGED <<cm, kind, heap, pc, added, last, root, cells, indexes, call,
                   nodes, prefix, undo, enum>>

\* compressNode returned: the caller stores the canonical node as its child
\* (t.children[i] = ...); at the top, compress returns it as the root, and
\* the packed builder goes on to fromSimple, which calls insertNode on it.
CompressReturn ==
    /\ pc = "compress"
    /\ ret # <<>>
    /\ IF stack # <<>>
       THEN LET f == stack[Len(stack)] IN
            /\ heap' = [heap EXCEPT ![f.t].children[f.i] = ret[1]]
            /\ stack' = [stack EXCEPT ![Len(stack)].i = f.i + 1]
            /\ UNCHANGED <<pc, root, cells, indexes, call>>
       ELSE /\ root' = [s |-> ret[1], idx |-> -1]
            /\ IF kind = "sc"
               THEN /\ pc' = "ready"
                    /\ UNCHANGED <<cells, indexes, call>>
               ELSE /\ pc' = "pack"
                    /\ cells' = <<>>
                    /\ indexes' = [p \in 1..Len(heap) |-> 0]
                    /\ call' = ret
            /\ UNCHANGED <<heap, stack>>
    /\ ret' = <<>>
    /\ UNCHANGED <<cm, kind, added, last, ct, nodes, prefix, undo, enum>>

\* packedTable.insertNode is entered on the node call: a node placed before
\* returns its index; otherwise findIndex chooses a base and the keys are
\* written.
PackEnter ==
    /\ pc = "pack"
    /\ call # <<>>
    /\ LET s == call[1] IN
       IF indexes[s] # 0
       THEN /\ ret' = <<indexes[s] - 1>>
            /\ UNCHANGED <<cells, indexes, stack>>
       ELSE LET f == findIndex(cells, heap[s]) IN
            /\ cells' = setKeys(f.cells, heap[s], f.idx)
            /\ indexes' = [indexes EXCEPT ![s] = f.idx + 1]
            /\ stack' = Append(stack, [s |-> s, idx |-> f.idx, i |-> 0])
            /\ ret' = <<>>
    /\ call' = <<>>
    /\ UNCHANGED <<cm, kind, heap, pc, added, last, ct, root,
                   nodes, prefix, undo, enum>>

\* The second loop of insertNode in the top frame [s, idx, i]: on to the
\* next child that is not nil, or return idx after the last one.
PackLoop ==
    /\ pc = "pack"
    /\ call = <<>>
    /\ ret = <<>>
    /\ stack # <<>>
    /\ LET f == stack[Len(stack)]
           j == liveFrom(heap[f.s], f.i)
       IN  IF j = -1
           THEN /\ stack' = SubSeq(stack, 1, Len(stack) - 1)
                /\ ret' = <<f.idx>>
                /\ call' = <<>>
           ELSE /\ stack' = [stack EXCEPT ![Len(stack)].i = j]
                /\ call' = <<heap[f.s].children[j]>>
                /\ ret' = <<>>
    /\ UNCHANGED <<cm, kind, heap, pc, added, last, ct, root, cells, indexes,
                   nodes, prefix, undo, enum>>

\* insertNode returned: the caller stores the index as the child's value, or
\* fromSimple wraps it as the root packedNode.
PackReturn ==
    /\ pc = "pack"
    /\ ret # <<>>
    /\ IF stack = <<>>
       THEN /\ root' = [root EXCEPT !.idx = ret[1]]
            /\ pc' = "ready"
            /\ UNCHANGED <<cells, stack>>
       ELSE LET f == stack[Len(stack)] IN
            /\ cells' = SetValue(cells, f.idx + f.i + 1, ret[1])
            /\ stack' = [stack EXCEPT ![Len(stack)].i = f.i + 1]
            /\ UNCHANGED <<root, pc>>
    /\ ret' = <<>>
    /\ UNCHANGED <<cm, kind, heap, added, last, ct, indexes, call,
                   nodes, prefix, undo, enum>>

-----------------------------------------------------------------------------
(* The TrieNode interface.  A TrieNode of a simple or suffix-compressed     *)
(* trie is a *simpleNode, written as the heap index of its s, or the nil    *)
(* interface value (nil) that simpleNode.Follow returns; a method called on *)
(* the nil interface value panics.  A TrieNode of a packed trie is a        *)
(* packedNode, written as its idx (-1 for badNode).  The outcome of a       *)
(* boolean method is "true", "false" or "panic".                            *)

bool(b) == IF b THEN "true" ELSE "false"

\* n.IsPrefix() and n.IsWord() for a TrieNode n of a trie of kind k.
TrieIsPrefix(k, h, t, n) ==
    IF k = "packed" THEN bool(packedIsPrefix(n))
    ELSE IF n = nil THEN "panic"
    ELSE bool(simpleIsPrefix(n))

TrieIsWord(k, h, t, n) ==
    IF k = "packed" THEN bool(packedIsWord(t, n))
    ELSE IF n = nil THEN "panic"
    ELSE bool(simpleIsWord(h, n))

\* n.Follow(c): <<the node returned>>, or <<>> for a panic.
TrieFollow(k, h, t, m, n, c) ==
    IF k = "packed" THEN <<packedFollow(t, m, n, c)>>
    ELSE IF n = nil THEN <<>>
    ELSE <<simpleFollow(h, m, n, c)>>

\* n.Follow(w[1]).Follow(w[2])...: <<the node reached>>, or <<>> for a panic.
RECURSIVE FollowAll(_, _, _, _, _, _)
FollowAll(k, h, t, m, n, w) ==
    IF w = <<>> THEN <<n>>
    ELSE LET f == TrieFollow(k, h, t, m, n, Head(w)) IN
         IF f = <<>> THEN <<>>
         ELSE FollowAll(k, h, t, m, f[1], Tail(w))

\* The outcome of IsWord() and of IsPrefix() after following w from n.
WordAfter(k, h, t, m, n, w) ==
    LET f == FollowAll(k, h, t, m, n, w) IN
    IF f = <<>> THEN "panic" ELSE TrieIsWord(k, h, t, f[1])

PrefixAfter(k, h, t, m, n, w) ==
    LET f == FollowAll(k, h, t, m, n, w) IN
    IF f = <<>> THEN "panic" ELSE TrieIsPrefix(k, h, t, f[1])

\* The TrieNode that Root() returned.
RootNode == IF kind = "packed" THEN root.idx ELSE root.s

-----------------------------------------------------------------------------
(* The navigator.  nv is the pair [nodes, prefix] of a Navigator.           *)

\* Navigator.lastNode
lastNode(ns) == ns[Len(ns)]

\* Navigator.IsWord, IsPrefix and Word
NavIsWord(ns) == TrieIsWord(kind, heap, cells, lastNode(ns))
NavIsPrefix(ns) == TrieIsPrefix(kind, heap, cells, lastNode(ns))
NavWord(pre) == pre

\* Navigator.Push: c is appended to the prefix, then the node that Follow
\* returns to the nodes; when Follow panics, the prefix has c already.
navPush(nv, c) ==
    LET f == TrieFollow(kind, heap, cells, cm, lastNode(nv.nodes), c) IN
    IF f = <<>>
    THEN [panic |-> TRUE,
          nv |-> [nodes |-> nv.nodes, prefix |-> Append(nv.prefix, c)]]
    ELSE [panic |-> FALSE,
          nv |-> [nodes |-> Append(nv.nodes, f[1]),
                  prefix |-> Append(nv.prefix, c)]]

\* What undo remembers over a Push(c) that returns, on the navigator nv.
undoPush(u, nv, c) ==
    IF u.state = "popped" /\ c # u.c
    THEN [u EXCEPT !.state = "repushed", !.c = c]
    ELSE [state |-> "pushed", word |-> NavWord(nv.prefix),
          isWord |-> NavIsWord(nv.nodes),
          isPrefix |-> NavIsPrefix(nv.nodes),
          node |-> lastNode(nv.nodes), c |-> c]

\* Navigator.PushString's loop over the runes rs that are left: Push(byte(c))
\* for each, up to the end or to a Push that panics.
RECURSIVE pushString(_, _)
pushString(v, rs) ==
    IF rs = <<>> THEN v
    ELSE LET c == rs[1] % 256
             r == navPush(v.nv, c)
         IN  IF r.panic
             THEN [panic |-> TRUE, nv |-> r.nv,
                   undo |-> [v.undo EXCEPT !.state = "panic"]]
             ELSE pushString([panic |-> FALSE, nv |-> r.nv,
                              undo |-> undoPush(v.undo, v.nv, c)], Tail(rs))

\* A Pop that shortens the prefix and leaves the nodes.
navPopPrefixOnly(nv) ==
    [nodes |-> nv.nodes,
     prefix |-> SubSeq(nv.prefix, 1, Len(nv.prefix) - 1)]

\* Navigator.Pop
navPop(nv) ==
    [nodes |-> SubSeq(nv.nodes, 1, Len(nv.nodes) - 1),
     prefix |-> SubSeq(nv.prefix, 1, Len(nv.prefix) - 1)]

\* Navigator.Reset
navReset(nv) == [nodes |-> SubSeq(nv.nodes, 1, 1), prefix |-> <<>>]

\* The loop of allValidWords from the byte v0.c on, as long as the pushed
\* child is no prefix: Push(c), the call returns at once, Pop().  It stops
\* "down" a child that is a prefix, at the "end" of the loop, or in a "panic".
scan(v0) ==
    LET loop[v \in [c : Int, nv : [nodes : Seq(Int), prefix : Seq(Int)]]] ==
            IF v.c > 90 THEN [st |-> "end", c |-> v.c, nv |-> v.nv]
            ELSE LET p == navPush(v.nv, v.c) IN
                 IF p.panic THEN [st |-> "panic", c |-> v.c, nv |-> p.nv]
                 ELSE LET ip == NavIsPrefix(p.nv.nodes) IN
                      IF ip = "panic"
                      THEN [st |-> "panic", c |-> v.c, nv |-> p.nv]
                      ELSE IF ip = "true"
                      THEN [st |-> "down", c |-> v.c, nv |-> p.nv]
                      ELSE loop[[c |-> v.c + 1, nv |-> navPop(p.nv)]]
    IN  loop[v0]

\* The bytes pushed on a navigator: 'A', 'B', '-' and the rejected '1'.
NavBytes == {65, 66, 45, 49}

\* The strings handed to PushString: "AB", "B1", "\xC3\xA9" (the rune U+00E9,
\* pushed as the byte 0xE9) and "\xC5\x93" (the rune U+0153, pushed as the
\* byte 0x53, 'S').
NavStrings == { <<65, 66>>, <<66, 49>>, <<195, 169>>, <<197, 147>> }

\* The strings added before a navigator is made: "A", "AB", "BB", "A-".
NavWords == { <<65>>, <<65, 66>>, <<66, 66>>, <<65, 45>> }

\* Who reads the channel: a caller of ValidWordsChan, All or Count.
Modes == {"Chan", "All", "Count"}

\* NewNavigator(Root())
NewNavigator ==
    /\ pc = "ready"
    /\ pc' = "nav"
    /\ nodes' = <<RootNode>>
    /\ prefix' = <<>>
    /\ UNCHANGED <<cm, kind, heap, added, last, ct, root, cells, indexes,
                   stack, call, ret, undo, enum>>

\* Whether the navigator may be used: no enumeration is running.
NavFree == pc = "nav" /\ enum.state \in {"idle", "done"}

\* Navigator.Push(c).  undo remembers what the navigator showed before a
\* Push, through the Pop that follows it and the Push after that.
Push(c) ==
    /\ NavFree
    /\ Len(prefix) < MaxDepth
    /\ LET r == navPush([nodes |-> nodes, prefix |-> prefix], c) IN
       /\ nodes' = r.nv.nodes
       /\ prefix' = r.nv.prefix
       /\ pc' = IF r.panic THEN "panic" ELSE pc
       /\ undo' = IF r.panic THEN [undo EXCEPT !.state = "panic"]
                  ELSE undoPush(undo, [nodes |-> nodes, prefix |-> prefix], c)
    /\ enum' = noEnum
    /\ UNCHANGED <<cm, kind, heap, added, last, ct, root, cells, indexes,
                   stack, call, ret>>

\* Navigator.PushString(s): Push(byte(c)) for every rune c of s.
PushString(s) ==
    /\ NavFree
    /\ Len(prefix) + Len(runes(s)) <= MaxDepth
    /\ LET r == pushString([panic |-> FALSE,
                            nv |-> [nodes |-> nodes, prefix |-> prefix],
                            undo |-> undo], runes(s)) IN
       /\ nodes' = r.nv.nodes
       /\ prefix' = r.nv.prefix
       /\ pc' = IF r.panic THEN "panic" ELSE pc
       /\ undo' = r.undo
    /\ enum' = noEnum
    /\ UNCHANGED <<cm, kind, heap, added, last, ct, root, cells, indexes,
                   stack, call, ret>>

\* Navigator.Pop(): at the root, n.prefix[:len(n.prefix)-1] panics.
Pop ==
    /\ NavFree
    /\ IF Len(prefix) = 0
       THEN /\ pc' = "panic"
            /\ UNCHANGED <<nodes, prefix>>
       ELSE /\ nodes' = navPop([nodes |-> nodes, prefix |-> prefix]).nodes
            /\ prefix' = navPop([nodes |-> nodes, prefix |-> prefix]).prefix
            /\ pc' = pc
    /\ undo' = IF undo.state = "pushed" THEN [undo EXCEPT !.state = "popped"]
               ELSE noUndo
    /\ enum' = noEnum
    /\ UNCHANGED <<cm, kind, heap, added, last, ct, root, cells, indexes,
                   stack, call, ret>>

\* Navigator.Reset()
Reset ==
    /\ NavFree
    /\ nodes' = navReset([nodes |-> nodes, prefix |-> prefix]).nodes
    /\ prefix' = navReset([nodes |-> nodes, prefix |-> prefix]).prefix
    /\ undo' = noUndo
    /\ enum' = noEnum
    /\ UNCHANGED <<cm, kind, heap, pc, added, last, ct, root, cells, indexes,
                   stack, call, ret>>

\* ValidWordsChan(), called by its reader m: the channel is made and the
\* goroutine started, about to enter allValidWords.  saved is the navigator
\* at that moment.
Start(m) ==
    /\ NavFree
    /\ enum' = [state |-> "running", mode |-> m,
                saved |-> [nodes |-> nodes, prefix |-> prefix],
                ppc |-> "enter", frames |-> <<>>,
                got |-> <<>>, count |-> 0, consumer |-> "recv"]
    /\ undo' = noUndo
    /\ UNCHANGED <<cm, kind, heap, pc, added, last, ct, root, cells, indexes,
                   stack, call, ret, nodes, prefix>>

\* The goroutine runs up to its next send, call, return or close.  frames
\* holds the loop byte c of every active allValidWords call that is in its
\* loop.
Produce ==
    /\ pc = "nav"
    /\ enum.state = "running"
    /\ enum.ppc \in {"enter", "loop", "ret"}
    /\ IF enum.ppc = "enter"
       THEN \* if !n.IsPrefix() { return }; if n.IsWord() { words <- ... }
            LET ip == NavIsPrefix(nodes) IN
            /\ pc' = IF ip = "panic" THEN "panic" ELSE pc
            /\ enum' = IF ip = "panic" THEN enum
                       ELSE IF ip = "false" THEN [enum EXCEPT !.ppc = "ret"]
                       ELSE IF NavIsWord(nodes) = "true"
                       THEN [enum EXCEPT !.ppc = "send"]
                       ELSE [enum EXCEPT !.ppc = "loop",
                                         !.frames = Append(@, 65)]
            /\ UNCHANGED <<nodes, prefix>>
       ELSE IF enum.ppc = "loop"
       THEN \* for c := byte('A'); c <= byte('Z'); c++ { n.Push(c); ...
            LET r == scan([c |-> enum.frames[Len(enum.frames)],
                           nv |-> [nodes |-> nodes, prefix |-> prefix]]) IN
            /\ pc' = IF r.st = "panic" THEN "panic" ELSE pc
            /\ nodes' = r.nv.nodes
            /\ prefix' = r.nv.prefix
            /\ enum' = IF r.st = "panic" THEN enum
                       ELSE IF r.st = "end"
                       THEN [enum EXCEPT !.ppc = "ret",
                                         !.frames = SubSeq(@, 1, Len(@) - 1)]
                       ELSE [enum EXCEPT !.ppc = "enter",
                                         !.frames[Len(enum.frames)] = r.c]
       ELSE \* a call returned: to close(c) at the top, else to n.Pop(); c++
            IF enum.frames = <<>>
            THEN /\ enum' = [enum EXCEPT !.ppc = "closed"]
                 /\ UNCHANGED <<pc, nodes, prefix>>
            ELSE /\ nodes' = navPop([nodes |-> nodes, prefix |-> prefix]).nodes
                 /\ prefix' = navPop([nodes |-> nodes, prefix |-> prefix]).prefix
                 /\ enum' = [enum EXCEPT !.ppc = "loop",
                                         !.frames[Len(enum.frames)] = @ + 1]
                 /\ pc' = pc
    /\ UNCHANGED <<cm, kind, heap, added, last, ct, root, cells, indexes,
                   stack, call, ret, undo>>

\* words <- n.Word() meets a receive of the reader: the channel has no
\* buffer.  All appends the word, Count counts it; the goroutine goes on to
\* its loop.
Recv ==
    /\ pc = "nav"
    /\ enum.state = "running"
    /\ enum.ppc = "send"
    /\ enum.consumer = "recv"
    /\ enum' = [enum EXCEPT !.ppc = "loop",
                            !.frames = Append(@, 65),
                            !.got = IF enum.mode = "Count" THEN @
                                    ELSE Append(@, NavWord(prefix)),
                            !.count = @ + 1]
    /\ UNCHANGED <<cm, kind, heap, pc, added, last, ct, root, cells, indexes,
                   stack, call, ret, nodes, prefix, undo>>

\* The caller of ValidWordsChan stops receiving before the channel is closed.
Stop ==
    /\ pc = "nav"
    /\ enum.state = "running"
    /\ enum.mode = "Chan"
    /\ enum.consumer = "recv"
    /\ enum.ppc # "closed"
    /\ enum' = [enum EXCEPT !.consumer = "stopped"]
    /\ UNCHANGED <<cm, kind, heap, pc, added, last, ct, root, cells, indexes,
                   stack, call, ret, nodes, prefix, undo>>

\* The reader finds the channel closed: its range loop ends, All and Count
\* return.
Finish ==
    /\ pc = "nav"
    /\ enum.state = "running"
    /\ enum.ppc = "closed"
    /\ enum.consumer = "recv"
    /\ enum' = [enum EXCEPT !.state = "done"]
    /\ UNCHANGED <<cm, kind, heap, pc, added, last, ct, root, cells, indexes,
                   stack, call, ret, nodes, prefix, undo>>

-----------------------------------------------------------------------------
(* The specifications *)

\* The steps of a builder up to the return of Root().
Build(W) ==
    \/ \E s \in W : AddWord(s)
    \/ Root
    \/ CompressLoop
    \/ CompressReturn
    \/ PackEnter
    \/ PackLoop
    \/ PackReturn

Next == Build(Words)

Spec == Init /\ [][Next]_vars

\* A builder on the reference alphabet, then a navigator on its trie.
NavInit == Init /\ cm = NewAlphaCharMap

NavNext ==
    \/ Build(NavWords)
    \/ NewNavigator
    \/ \E c \in NavBytes : Push(c)
    \/ \E s \in NavStrings : PushString(s)
    \/ Pop
    \/ Reset
    \/ \E m \in Modes : Start(m)
    \/ Produce
    \/ Recv
    \/ Stop
    \/ Finish

\* The goroutine runs when it can, and a reader that has not stopped goes on
\* receiving.
NavSpec ==
    /\ NavInit
    /\ [][NavNext]_vars
    /\ WF_vars(Produce)
    /\ WF_vars(Recv)
    /\ WF_vars(Finish)

-----------------------------------------------------------------------------
(* Strings to follow from the root *)

\* The bytes of the probe strings: 'A', 'B', '-', '1', 0xE9 and 0xC3.
ProbeBytes == {65, 66, 45, 49, 233, 195}

\* Every string of at most n probe bytes.
RECURSIVE StringsUpTo(_)
StringsUpTo(n) ==
    IF n = 0 THEN {<<>>}
    ELSE LET S == StringsUpTo(n - 1) IN
         S \cup {Append(w, b) : w \in S, b \in ProbeBytes}

ShortProbes == StringsUpTo(ProbeLen)

\* The prefixes of the added words, and these with one more byte: strings up
\* to one byte longer than the longest added word.
WordProbes ==
    LET P == UNION {{SubSeq(w, 1, k) : k \in 0..Len(w)} : w \in added}
    IN  P \cup {Append(w, b) : w \in P, b \in ProbeBytes}

Probes == ShortProbes \cup WordProbes

\* w is a prefix of a, byte by byte up to the folding of the alphabet map.
FoldedPrefix(w, a) ==
    /\ Len(w) <= Len(a)
    /\ \A i \in 1..Len(w) :
          w[i] = a[i] \/ (cm[w[i]] # 0 /\ cm[w[i]] = cm[a[i]])

\* w and a are the same word up to the folding of the alphabet map.
FoldedEqual(w, a) == Len(w) = Len(a) /\ FoldedPrefix(w, a)

\* Every byte of w is accepted by the alphabet map.
Accepted(w) == \A i \in 1..Len(w) : cm[w[i]] # 0

-----------------------------------------------------------------------------
(* Claims about the builders, under Spec *)

\* C1: once Root() has returned, in each of the three encodings, following
\* the bytes of any word for which AddWord returned nil leads to a node whose
\* IsWord() is true, through nodes whose IsPrefix() is true.
C1_AddedWordsAreWords ==
    pc = "ready" =>
        \A w \in added :
            /\ WordAfter(kind, heap, cells, cm, RootNode, w) = "true"
            /\ \A k \in 0..Len(w) :
                  PrefixAfter(kind, heap, cells, cm, RootNode, SubSeq(w, 1, k))
                      = "true"

\* C2: in each of the three encodings, IsWord() after following a string
\* that is no added word (up to case folding) returns false; and where the
\* string leaves the added words at some byte, the node reached is a
\* sentinel: its IsPrefix() and IsWord() return false, and so do those of
\* the nodes its Follow returns.
C2_OtherStringsAreNotWords ==
    pc = "ready" =>
        \A w \in Probes :
            /\ (\A a \in added : ~FoldedEqual(w, a))
                  => WordAfter(kind, heap, cells, cm, RootNode, w) = "false"
            /\ (w # <<>> /\ \A a \in added : ~FoldedPrefix(w, a))
                  => /\ PrefixAfter(kind, heap, cells, cm, RootNode, w) = "false"
                     /\ \A b \in ProbeBytes :
                           /\ PrefixAfter(kind, heap, cells, cm, RootNode,
                                          Append(w, b)) = "false"
                           /\ WordAfter(kind, heap, cells, cm, RootNode,
                                        Append(w, b)) = "false"

\* C4: an AddWord call on a string with a byte the alphabet map sends to 0
\* returns the error and changes nothing: the nodes and their flags are as
\* before the call.
C4_RejectedWordIsRefused ==
    [][(/\ last'.calls = last.calls + 1
        /\ \E i \in 1..Len(last'.word) : cm[last'.word[i]] = 0)
          => (last'.err = "error" /\ heap' = heap /\ pc' = pc)]_vars

\* C5: after packing, following any string of accepted bytes from the packed
\* root gives the same IsWord() and IsPrefix() as following it from the root
\* of the compressed trie that was packed.
C5_PackedAgreesWithCompressed ==
    (pc = "ready" /\ kind = "packed") =>
        \A w \in Probes :
            Accepted(w) =>
                /\ WordAfter("packed", heap, cells, cm, root.idx, w)
                      = WordAfter("sc", heap, cells, cm, root.s, w)
                /\ PrefixAfter("packed", heap, cells, cm, root.idx, w)
                      = PrefixAfter("sc", heap, cells, cm, root.s, w)

\* The root of the trie under compression: b.s until compress returns.
rootDuring(p, r) == IF p = "compress" THEN 1 ELSE r.s

\* C6: every step of compress leaves IsWord() and IsPrefix() after every
\* string as they were, so the DAG compress returns accepts a string as a
\* word, and as a prefix, exactly if the tree did; this also where nodes of
\* different structure have the same hash.
C6_CompressKeepsLanguage ==
    [][pc = "compress" =>
        \A w \in Probes :
            /\ WordAfter("sc", heap', cells, cm, rootDuring(pc', root'), w)
                  = WordAfter("sc", heap, cells, cm, 1, w)
            /\ PrefixAfter("sc", heap', cells, cm, rootDuring(pc', root'), w)
                  = PrefixAfter("sc", heap, cells, cm, 1, w)]_vars

\* A compression of several nodes has returned in which a node met a bucket
\* holding only nodes of another structure.
C6_Witness ==
    /\ pc = "ready"
    /\ kind = "sc"
    /\ ct.collisions > 0
    /\ ct.nodes >= 2

\* The nodes that can be reached from the nodes of S by children pointers.
RECURSIVE reachable(_, _)
reachable(h, S) ==
    LET T == S \cup {h[s].children[i] : s \in S, i \in 0..(width(h[1]) - 1)}
        U == T \ {nil}
    IN  IF U = S THEN S ELSE reachable(h, U)

\* Two nodes are structurally equal: the same terminal flag, a child for the
\* same symbols, and structurally equal children.
RECURSIVE structurallyEqual(_, _, _)
structurallyEqual(h, s, t) ==
    /\ h[s].isWord = h[t].isWord
    /\ \A i \in DOMAIN h[s].children :
          /\ (h[s].children[i] = nil) = (h[t].children[i] = nil)
          /\ h[s].children[i] # nil =>
                structurallyEqual(h, h[s].children[i], h[t].children[i])

\* C12: once compress has returned, no two different nodes that can be
\* reached from the root it returned are structurally equal; this also where
\* nodes of different structure have the same hash.
C12_CompressedNodesAreDistinct ==
    (kind # "simple" /\ pc \in {"pack", "ready"}) =>
        \A s, t \in reachable(heap, {root.s}) :
            s # t => ~structurallyEqual(heap, s, t)

\* compress has returned a DAG of three nodes or more after it replaced a
\* node by a structurally equal one: a node of the DAG has two parents.
C12_Witness ==
    /\ kind = "sc"
    /\ pc = "ready"
    /\ ct.duplicates > 0
    /\ Cardinality(reachable(heap, {root.s})) >= 3
    /\ \E s, t, u \in reachable(heap, {root.s}) :
          /\ s # t
          /\ \E i \in DOMAIN heap[s].children : heap[s].children[i] = u
          /\ \E i \in DOMAIN heap[t].children : heap[t].children[i] = u

\* The nodes fromSimple has placed, and the base of each.
Placed == {s \in 1..Len(heap) : indexes[s] # 0}
base(s) == indexes[s] - 1

\* Slot j of a node is live: j = 0 on a word, j >= 1 on a child for symbol j.
live(node, j) == IF j = 0 THEN node.isWord ELSE node.children[j - 1] # nil

\* C10: after packing a DAG whose nodes each are a word or have a child,
\* different nodes have different bases, and for a node at base b the cell
\* b+j has the key j+1 exactly if slot j is live for the node; the value of
\* a live child slot is the base of the child.
C10_PackedSlotsAreExact ==
    (/\ pc = "ready"
     /\ kind = "packed"
     /\ \A s \in Placed : heap[s].isWord \/ liveFrom(heap[s], 0) # -1) =>
        /\ \A s, t \in Placed : s # t => base(s) # base(t)
        /\ \A s \in Placed : \A j \in 0..width(heap[s]) :
              /\ (/\ base(s) + j < Len(cells)
                  /\ Key(cells, base(s) + j) = j + 1) <=> live(heap[s], j)
              /\ (j >= 1 /\ live(heap[s], j)) =>
                    Value(cells, base(s) + j) = base(heap[s].children[j - 1])

\* A packed trie of three nodes or more in which the slots of two nodes
\* overlap.
C10_Witness ==
    /\ pc = "ready"
    /\ kind = "packed"
    /\ Cardinality(Placed) >= 3
    /\ \E s, t \in Placed :
          s # t /\ base(s) < base(t) /\ base(t) <= base(s) + width(heap[s])

\* C11: at every step of the packing, the table does not shrink and a cell
\* whose key is not 0 keeps its key; a node that the step places has each
\* of its live slots on a cell that was past the end of the table or had
\* the key 0.
C11_KeysAreNeverOverwritten ==
    [][pc = "pack" =>
        /\ Len(cells') >= Len(cells)
        /\ \A k \in 0..(Len(cells) - 1) :
              Key(cells, k) # 0 => Key(cells', k) = Key(cells, k)
        /\ \A s \in 1..Len(heap) :
              (indexes[s] = 0 /\ indexes'[s] # 0) =>
                 \A j \in 0..width(heap[s]) :
                    live(heap[s], j) =>
                       \/ indexes'[s] - 1 + j >= Len(cells)
                       \/ Key(cells, indexes'[s] - 1 + j) = 0]_vars

\* The key cell k had before the node of frame f was placed at f.idx.
keyBefore(f, k) ==
    IF k >= Len(cells) THEN 0
    ELSE IF k >= f.idx /\ k - f.idx <= width(heap[f.s])
            /\ live(heap[f.s], k - f.idx) THEN 0
    ELSE Key(cells, k)

\* insertNode has just placed a node past a base i that findIndex refused
\* only for a slot the node needs: i starts at a gap and has no cell i+j
\* with the key j+1, but a live slot of the node lay on a keyed cell.
C11_Witness ==
    /\ pc = "pack"
    /\ stack # <<>>
    /\ call = <<>>
    /\ ret = <<>>
    /\ LET f == stack[Len(stack)]
           node == heap[f.s]
       IN  /\ f.i = 0
           /\ \E i \in 0..(f.idx - 1) :
                 /\ keyBefore(f, i + findOffset(node)) = 0
                 /\ \A j \in 0..width(node) : keyBefore(f, i + j) # j + 1
                 /\ \E j \in 0..width(node) :
                       live(node, j) /\ keyBefore(f, i + j) # 0

-----------------------------------------------------------------------------
(* Claims about the navigator, under NavSpec *)

\* The range of a sequence.
Range(q) == {q[i] : i \in 1..Len(q)}

\* The added words that continue the string p.
WordsUnder(p) == {a \in added : FoldedPrefix(p, a)}

\* C3: an enumeration that has finished at a valid prefix p has produced
\* exactly the added words that continue p, up to case folding, and Count()
\* is their number; at a position that is no valid prefix it has produced
\* nothing.
C3_EnumerationIsExact ==
    enum.state = "done" =>
        IF NavIsPrefix(enum.saved.nodes) = "true"
        THEN /\ enum.count = Cardinality(WordsUnder(enum.saved.prefix))
             /\ enum.mode # "Count" =>
                   /\ \A g \in Range(enum.got) :
                         \E a \in WordsUnder(enum.saved.prefix) : FoldedEqual(g, a)
                   /\ \A a \in WordsUnder(enum.saved.prefix) :
                         \E g \in Range(enum.got) : FoldedEqual(g, a)
        ELSE enum.count = 0 /\ enum.got = <<>>

\* C7: when the reader of the channel has stopped while the goroutine is at
\* a send, the goroutine still comes to close the channel, with the
\* navigator's prefix and nodes as they were when the enumeration started.
C7_ProducerTerminates ==
    (enum.state = "running" /\ enum.consumer = "stopped" /\ enum.ppc = "send")
        ~> (/\ enum.ppc = "closed"
            /\ nodes = enum.saved.nodes
            /\ prefix = enum.saved.prefix)

\* C8: once the reader has found the channel closed, the navigator's prefix
\* and nodes are what they were when the enumeration started.
C8_EnumerationRestoresNavigator ==
    enum.state = "done" =>
        /\ nodes = enum.saved.nodes
        /\ prefix = enum.saved.prefix

\* An enumeration from below the root has finished after producing two
\* words or more.
C8_Witness ==
    /\ enum.state = "done"
    /\ enum.count >= 2
    /\ prefix # <<>>

\* C9: Push(c) returns for every byte c; after Push(c) and then Pop(),
\* Word(), IsWord() and IsPrefix() are what they were before the Push; and a
\* Push of another byte after that descends from the same node.
C9_PushPopRestores ==
    /\ undo.state # "panic"
    /\ undo.state = "popped" =>
          /\ NavWord(prefix) = undo.word
          /\ NavIsWord(nodes) = undo.isWord
          /\ NavIsPrefix(nodes) = undo.isPrefix
    /\ undo.state = "repushed" =>
          /\ NavWord(prefix) = Append(undo.word, undo.c)
          /\ <<lastNode(nodes)>>
                = TrieFollow(kind, heap, cells, cm, undo.node, undo.c)

====
